---- MODULE Spec2Model ----
(***************************************************************************)
(* Medicine verification backend: the /compare handler of backend/app.py   *)
(* (attempt gate, reference resolution, candidate loop, approval gate,     *)
(* ledger record) and the scoring pipeline of backend/vlm_compare.py.      *)
(*                                                                         *)
(* Scores are Python floats in the source.  Here a score is an integer in  *)
(* units of 1/One, so 1.0 is One, 0.65 is 39000 and so on; every value the *)
(* model draws is chosen so that the divisions the code performs are exact *)
(* in these units.  Floating point rounding is outside the model.          *)
(***************************************************************************)
EXTENDS Integers, Sequences, FiniteSets, TLC

\* ---------------------------------------------------------------- bounds
\* Requests served in one behaviour.
MaxRequests == 2
\* Longest list the reference resolver returns.
MaxResolved == 2
\* The ledger starts with MAX_ATTEMPTS - PriorSlack .. MAX_ATTEMPTS rows.
PriorSlack == 1
\* Request slots (handler invocations that can exist at the same time).
NumSlots == 2

\* ------------------------------------------------------- program constants
One == 60000
Pct(n) == n * 600

MAX_ATTEMPTS == 10
APPROVAL_SCORE_THRESHOLD == 39000
TEXT_SCORE_MIN_THRESHOLD == 15000
MATCH_THRESHOLD == 36000
COMPOSITION_WEIGHT == 12000
\* Python's None where a float is expected (scores are never negative).
None == -1

Max2(a, b) == IF a >= b THEN a ELSE b
Min2(a, b) == IF a <= b THEN a ELSE b

\* ------------------------------------------------------------- raw values
\* A value as it arrives in a JSON document (or as a Python float):
\*   num     a finite number v (units of 1/One, any sign, any size)
\*   nan     the float NaN (json.loads accepts the literal NaN)
\*   text    a non-numeric string, a list or an object
\*   null    JSON null
\*   huge    an integer too large for float(): float() raises OverflowError
\*   missing the key is not in the object
Raw(k, n) == [kind |-> k, v |-> n]
Num(n) == Raw("num", n)
Missing == Raw("missing", 0)
Null == Raw("null", 0)
NonNumeric == Raw("text", 0)
NaN == Raw("nan", 0)
Huge == Raw("huge", 0)

\* dict.get(key, default) for two nested lookups: d.get(a, d.get(b, default)).
Get2(first, second, default) ==
    IF first.kind # "missing" THEN first
    ELSE IF second.kind # "missing" THEN second
    ELSE default

\* float(value) raises something other than TypeError / ValueError.
FloatOverflows(raw) == raw.kind = "huge"

\* The conversion without the clamp.
_clamp_score_unclamped(raw, fallback) ==
    IF raw.kind \in {"text", "null", "missing"} THEN fallback
    ELSE IF raw.kind = "nan" THEN One
    ELSE raw.v

\* vlm_compare._clamp_score: float(value), TypeError/ValueError -> fallback,
\* then max(0.0, min(1.0, parsed)).  min(1.0, nan) is 1.0 in Python.
_clamp_score(raw, fallback) ==
    LET parsed == IF raw.kind \in {"text", "null", "missing"} THEN fallback ELSE raw.v
    IN  IF raw.kind = "nan" THEN One
        ELSE Max2(0, Min2(One, parsed))

\* app._normalize_score: the same conversion written with two comparisons; a
\* NaN passes both comparisons and is returned as it is (modelled as None,
\* which is outside [0, One]).
_normalize_score(raw, fallback) ==
    LET parsed == IF raw.kind \in {"text", "null", "missing"} THEN fallback ELSE raw.v
    IN  IF raw.kind = "nan" THEN None
        ELSE IF parsed < 0 THEN 0
        ELSE IF parsed > One THEN One
        ELSE parsed

\* ------------------------------------------------------------------ text
\* A Python string is the sequence of its maximal alphanumeric runs ("words").
Lower(w) ==
    IF w = "Ibuprofen" THEN "ibuprofen"
    ELSE IF w = "TAB" THEN "tab"
    ELSE w

\* vlm_compare._tokenize: lower-cased runs of [a-z0-9] of length >= 3.
_tokenize(value) ==
    {Lower(value[i]) : i \in {j \in 1..Len(value) : Len(value[j]) >= 3}}

\* A JSON value where a string is expected: [str |-> is it a string, s |-> it].
Str(s) == [str |-> TRUE, s |-> s]
NotStr == [str |-> FALSE, s |-> <<>>]

\* vlm_compare._safe_string
_safe_string(value) == IF value.str THEN value.s ELSE <<>>

\* vlm_compare._jaccard_similarity
_jaccard_similarity(left, right) ==
    LET left_tokens == _tokenize(left)
        right_tokens == _tokenize(right)
        union == left_tokens \cup right_tokens
    IN  IF left_tokens = {} /\ right_tokens = {} THEN 0
        ELSE IF union = {} THEN 0
        ELSE _clamp_score(
                 Num((Cardinality(left_tokens \cap right_tokens) * One)
                         \div Cardinality(union)), 0)

\* ------------------------------------------------------------- embeddings
\* The body of an embedding endpoint response after response.json():
\* a flat list of numbers, a list whose first element is such a list, or
\* something that is not a list (an error object).
EmbList(items) == [list |-> TRUE, nested |-> FALSE, items |-> items]
EmbNested(items) == [list |-> TRUE, nested |-> TRUE, items |-> items]
EmbNotList == [list |-> FALSE, nested |-> FALSE, items |-> <<>>]

\* vlm_compare._flatten_embedding
_flatten_embedding(payload) ==
    IF payload.list THEN payload.items ELSE <<>>

\* One call of the embedding endpoint: the request fails (transport, HTTP
\* status, body not JSON) or it delivers a body.
EmbFailed == [ok |-> FALSE, body |-> EmbNotList]
EmbOk(body) == [ok |-> TRUE, body |-> body]

\* vlm_compare._extract_image_embedding followed by the caller's "or []".
_extract_image_embedding(response) ==
    IF response.ok THEN _flatten_embedding(response.body) ELSE <<>>

\* sum(a * b for a, b in zip(l[:size], r[:size]))
DotPrefix(l, r, size) ==
    LET partial[i \in 0..size] ==
            IF i = 0 THEN 0 ELSE l[i] * r[i] + partial[i - 1]
    IN  partial[size]

\* The square root of a perfect square (the vectors of the model are chosen so
\* that the product of the squared norms is one).
Isqrt(x) == CHOOSE s \in 0..x : s * s = x

\* vlm_compare._cosine_similarity; None when it returns None.
_cosine_similarity(left, right) ==
    LET size == Min2(Len(left), Len(right))
        dot == DotPrefix(left, right, size)
        left_sq == DotPrefix(left, left, size)
        right_sq == DotPrefix(right, right, size)
    IN  IF left = <<>> \/ right = <<>> THEN None
        ELSE IF size = 0 THEN None
        ELSE IF left_sq = 0 \/ right_sq = 0 THEN None
        ELSE _clamp_score(
                 Num(((dot * One) \div Isqrt(left_sq * right_sq) + One) \div 2), 0)

\* vlm_compare._compute_embedding_similarity
_compute_embedding_similarity(reference_response, test_response) ==
    _cosine_similarity(_extract_image_embedding(reference_response),
                       _extract_image_embedding(test_response))

\* ------------------------------------------------------ visual similarity
\* FeatureScoreSet: what the four extractors return for one image pair, each
\* already passed through _clamp_score.
Features(p, h, e, s) == [pixel |-> p, histogram |-> h, edge |-> e, hash |-> s]

\* The unboosted weighted sum of vlm_compare._compute_pair_similarity.
Blended(f) ==
    (35 * f.pixel + 25 * f.histogram + 20 * f.edge + 20 * f.hash) \div 100

\* The boost with an exclusive threshold.
_compute_pair_similarity_exclusive(f) ==
    IF Blended(f) > Pct(85) THEN Min2(One, Blended(f) + Pct(8)) ELSE Blended(f)

\* vlm_compare._compute_pair_similarity from the blend onwards.
_compute_pair_similarity(f) ==
    LET blended == Blended(f)
        boosted == IF blended >= Pct(85) THEN Min2(One, blended + Pct(8))
                   ELSE blended
    IN  _clamp_score(Num(boosted), 0)

\* The variant search: three centre crops of the reference against three
\* centre crops of the test image, each rotated four ways.
CropRatios == {100, 90, 75}
Angles == {0, 90, 180, 270}
VariantPairs == CropRatios \X (CropRatios \X Angles)

\* What a pair of decodable, different images looks like to the extractors:
\* the features of the variant pairs that line up (same crop, the test
\* rotated by "angle") and the features of all the others.
Scene(aligned, other, angle) == [aligned |-> aligned, other |-> other, angle |-> angle]
PairFeatures(scene, variant) ==
    IF variant[1] = variant[2][1] /\ variant[2][2] = scene.angle
    THEN scene.aligned ELSE scene.other

SetMax(S) == CHOOSE m \in S : \A x \in S : x <= m

\* The bytes behind an image URL: [id |-> content, valid |-> PIL can open it].
Bytes(id, valid) == [id |-> id, valid |-> valid]

\* hashlib.sha256(...).hexdigest(): equal digests exactly for equal content
\* (collisions are outside the model).  The digest is not the content itself.
Sha256(bytes) == <<"sha256", bytes.id>>

\* The digests never compared: every pair goes through the decoder.
VisualNeverIdentical(reference_bytes, test_bytes) == FALSE

\* vlm_compare._compute_visual_similarity:
\* [raised, searched, score].  raised: VLMCompareError("Invalid image data");
\* searched: the variant search ran.
VisualIdentical(reference_bytes, test_bytes) ==
    Sha256(reference_bytes) = Sha256(test_bytes)
_compute_visual_similarity(reference_bytes, test_bytes, scene) ==
    IF VisualIdentical(reference_bytes, test_bytes)
    THEN [raised |-> FALSE, searched |-> FALSE, score |-> One]
    ELSE IF ~reference_bytes.valid \/ ~test_bytes.valid
    THEN [raised |-> TRUE, searched |-> FALSE, score |-> 0]
    ELSE [raised |-> FALSE, searched |-> TRUE,
          score |-> _clamp_score(
              Num(SetMax({_compute_pair_similarity(PairFeatures(scene, v))
                             : v \in VariantPairs})), 0)]

\* --------------------------------------------------- vision-language reply
\* A JSON object of the vision-language endpoint: the keys the code reads.
\* has_match / has_reason: the key is present; generated_text is one of
\*   absent, nonstring, empty (""), nojson (no {...} region),
\*   badjson (a {...} region json.loads rejects), json (a parsable region).
EmptyObj ==
    [error |-> FALSE,
     image_similarity |-> Missing, similarity_score |-> Missing,
     text_similarity |-> Missing,
     final_score |-> Missing, final_similarity_score |-> Missing,
     has_match |-> FALSE, has_reason |-> FALSE,
     detected_text_reference |-> NotStr, detected_text_test |-> NotStr,
     active_ingredient |-> NotStr, strength |-> NotStr,
     generated_text |-> "absent"]

HasScoreKey(o) ==
    \/ o.image_similarity.kind # "missing"
    \/ o.text_similarity.kind # "missing"
    \/ o.final_score.kind # "missing"
    \/ o.has_match

\* The decoded body: a dict (obj), a list (obj is its first element when that
\* is a dict), or anything else.  inner is the object inside the {...}
\* region of obj.generated_text when that region parses.
Payload(shape, obj, inner) == [shape |-> shape, obj |-> obj, inner |-> inner]

\* vlm_compare._extract_json_object: [raised, parsed].
_extract_json_object(generated, inner) ==
    IF generated = "empty" THEN [raised |-> TRUE, parsed |-> EmptyObj]
    ELSE IF generated = "nojson" THEN [raised |-> TRUE, parsed |-> EmptyObj]
    ELSE IF generated = "badjson" THEN [raised |-> TRUE, parsed |-> EmptyObj]
    ELSE [raised |-> FALSE, parsed |-> inner]

IsStringText(generated) == generated \in {"empty", "nojson", "badjson", "json"}

\* The parser without the check of the error key (lines 251-252).
_parse_response_payload_ignoring_error(payload) ==
    LET o == payload.obj
        unexpected == [raised |-> TRUE, parsed |-> EmptyObj]
    IN  IF payload.shape = "dict" /\ HasScoreKey(o)
        THEN [raised |-> FALSE, parsed |-> o]
        ELSE IF payload.shape \in {"dict", "list"} /\ IsStringText(o.generated_text)
        THEN _extract_json_object(o.generated_text, payload.inner)
        ELSE IF payload.shape = "list" /\ HasScoreKey(o)
        THEN [raised |-> FALSE, parsed |-> o]
        ELSE unexpected

\* vlm_compare._parse_response_payload: [raised, parsed].
_parse_response_payload(payload) ==
    LET o == payload.obj
        unexpected == [raised |-> TRUE, parsed |-> EmptyObj]
    IN  IF payload.shape = "dict" /\ o.error THEN unexpected
        ELSE IF payload.shape = "dict" /\ HasScoreKey(o)
        THEN [raised |-> FALSE, parsed |-> o]
        ELSE IF payload.shape = "dict" /\ IsStringText(o.generated_text)
        THEN _extract_json_object(o.generated_text, payload.inner)
        ELSE IF payload.shape = "list" /\ IsStringText(o.generated_text)
        THEN _extract_json_object(o.generated_text, payload.inner)
        ELSE IF payload.shape = "list" /\ HasScoreKey(o)
        THEN [raised |-> FALSE, parsed |-> o]
        ELSE unexpected

\* One call of the vision-language endpoint.
\*   transport: requests.post / raise_for_status raised RequestException
\*   json:      response.json() succeeded
VlmResponse(transport_ok, is_json, payload) ==
    [transport_ok |-> transport_ok, is_json |-> is_json, payload |-> payload]

\* -------------------------------------------------------------- ScoreResult
ScoreResult(image_similarity, text_similarity, final_score, reason) ==
    [image_similarity |-> image_similarity,
     text_similarity |-> text_similarity,
     final_score |-> final_score,
     match |-> final_score >= MATCH_THRESHOLD,
     reason |-> reason]

ReasonNoKey == "Fallback similarity used (HF API key missing)."
ReasonRequestFailed == "Fallback similarity used (VLM request failed)."
ReasonNotJson == "Fallback similarity used (model response was not JSON)."
ReasonUnexpected == "Fallback similarity used (unexpected model payload)."
ReasonDefault == "VLM + visual similarity + composition consistency."
ReasonModel == "reason reported by the model"
FallbackReasons == {ReasonNoKey, ReasonRequestFailed, ReasonNotJson, ReasonUnexpected}

\* The four "fallback" returns of compare_pills_vlm.
Degraded(visual_similarity, reason) ==
    ScoreResult(visual_similarity, None, visual_similarity, reason)

\* ------------------------------------------------------------ composition
\* Medicine identifiers, as texts: "ibuprofen-200mg" and "m1" (no token of
\* three characters or more).
MedIbuprofen == <<"ibuprofen", "200mg">>
MedShort == <<"m1">>
MedicineIds == {MedIbuprofen, MedShort}

\* vlm_compare._load_composition_hints: the table MEDICINE_COMPOSITION_HINTS
\* configures (one entry), looked up by the normalised identifier, joined
\* with spaces.
_load_composition_hints(medicine_id) ==
    IF medicine_id = MedIbuprofen THEN <<"tab">> ELSE <<>>

\* compare_pills_vlm, the composition consistency score.
ExpectedTerms(parsed, medicine_id) ==
    _tokenize(medicine_id)
        \cup _tokenize(_safe_string(parsed.active_ingredient))
        \cup _tokenize(_safe_string(parsed.strength))
        \cup _tokenize(_load_composition_hints(medicine_id))
DetectedTokens(parsed) ==
    _tokenize(_safe_string(parsed.detected_text_reference)
                  \o _safe_string(parsed.detected_text_test)
                  \o _safe_string(parsed.active_ingredient)
                  \o _safe_string(parsed.strength))
CompositionSimilarity(parsed, medicine_id) ==
    LET expected_terms == ExpectedTerms(parsed, medicine_id)
        detected_tokens == DetectedTokens(parsed)
    IN  IF expected_terms # {}
        THEN _clamp_score(
                 Num((Cardinality(expected_terms \cap detected_tokens) * One)
                         \div Cardinality(expected_terms)), 0)
        ELSE 0

\* ------------------------------------------------- compare_pills_vlm, fused
\* image_similarity as the model reports it.
ParsedImageSimilarity(parsed, visual_similarity) ==
    _clamp_score(Get2(parsed.image_similarity, parsed.similarity_score,
                      Num(visual_similarity)),
                 visual_similarity)

\* text_similarity: the reported value and the token overlap of the texts.
ParsedTextSimilarity(parsed) ==
    LET raw_text_similarity == parsed.text_similarity
        extracted == _jaccard_similarity(
                         _safe_string(parsed.detected_text_reference),
                         _safe_string(parsed.detected_text_test))
        reported == _clamp_score(raw_text_similarity, 0)
    IN  IF raw_text_similarity.kind \in {"missing", "null"}
        THEN (IF extracted > 0 THEN extracted ELSE None)
        ELSE IF extracted > 0
        THEN _clamp_score(Num(Max2(reported, extracted)), 0)
        ELSE reported

VlmFinal(parsed, image_similarity, text_similarity) ==
    IF parsed.final_score.kind # "missing"
           \/ parsed.final_similarity_score.kind # "missing"
    THEN _clamp_score(Get2(parsed.final_score, parsed.final_similarity_score,
                           Num(image_similarity)),
                      image_similarity)
    ELSE IF text_similarity = None THEN image_similarity
    ELSE _clamp_score(Num((image_similarity + text_similarity) \div 2),
                      image_similarity)

FinalScore(vlm_final, visual_similarity, composition_similarity) ==
    LET base_score == _clamp_score(Num(Max2(vlm_final, visual_similarity)), 0)
    IN  _clamp_score(
            Num(base_score + (COMPOSITION_WEIGHT * composition_similarity) \div One),
            0)

\* float() of one of the three score fields raises OverflowError, which
\* _clamp_score does not catch: compare_pills_vlm raises.
FusionRaises(parsed) ==
    \/ FloatOverflows(Get2(parsed.image_similarity, parsed.similarity_score, Num(0)))
    \/ FloatOverflows(parsed.text_similarity)
    \/ (\/ parsed.final_score.kind # "missing"
        \/ parsed.final_similarity_score.kind # "missing")
       /\ FloatOverflows(Get2(parsed.final_score, parsed.final_similarity_score,
                              Num(0)))

\* compare_pills_vlm from the parsed object to the returned dict.
Fused(parsed, visual_similarity, medicine_id) ==
    LET image_similarity == ParsedImageSimilarity(parsed, visual_similarity)
        text_similarity == ParsedTextSimilarity(parsed)
        vlm_final == VlmFinal(parsed, image_similarity, text_similarity)
        final_score == FinalScore(vlm_final, visual_similarity,
                                  CompositionSimilarity(parsed, medicine_id))
    IN  ScoreResult(
            _clamp_score(Num(Max2(image_similarity, visual_similarity)), 0),
            text_similarity,
            final_score,
            IF parsed.has_reason THEN ReasonModel ELSE ReasonDefault)

\* compare_pills_vlm after the embedding merge: the vision-language call and
\* everything after it.  [raised, result].
VlmStage(response, visual_similarity, medicine_id) ==
    LET p == _parse_response_payload(response.payload)
    IN  IF ~response.transport_ok
        THEN [raised |-> FALSE,
              result |-> Degraded(visual_similarity, ReasonRequestFailed)]
        ELSE IF ~response.is_json
        THEN [raised |-> FALSE,
              result |-> Degraded(visual_similarity, ReasonNotJson)]
        ELSE IF p.raised
        THEN [raised |-> FALSE,
              result |-> Degraded(visual_similarity, ReasonUnexpected)]
        ELSE IF FusionRaises(p.parsed)
        THEN [raised |-> TRUE,
              result |-> Degraded(visual_similarity, ReasonUnexpected)]
        ELSE [raised |-> FALSE,
              result |-> Fused(p.parsed, visual_similarity, medicine_id)]

\* A merge that takes the embedding similarity in place of the visual one.
EmbeddingMergeReplacing(visual_similarity, embedding_similarity) ==
    IF embedding_similarity # None THEN embedding_similarity
    ELSE visual_similarity

\* The embedding merge: visual = max(visual, embedding) when there is one.
EmbeddingMerge(visual_similarity, embedding_similarity) ==
    IF embedding_similarity # None
    THEN _clamp_score(Num(Max2(visual_similarity, embedding_similarity)), 0)
    ELSE visual_similarity

\* ------------------------------------------------------ compare_pills_vlm
\* requests.get of an image URL: it fails, or it delivers bytes.
FetchFailed == [ok |-> FALSE, bytes |-> Bytes(0, FALSE)]
Fetched(bytes) == [ok |-> TRUE, bytes |-> bytes]

\* Everything one call of compare_pills_vlm reads from the outside world.
CallInput(reference, test, scene, reference_embedding, test_embedding, response) ==
    [reference |-> reference, test |-> test, scene |-> scene,
     reference_embedding |-> reference_embedding,
     test_embedding |-> test_embedding, response |-> response]

\* compare_pills_vlm, lines 276-278: [raised, searched, score].
FetchStage(reference, test, scene) ==
    IF ~reference.ok \/ ~test.ok
    THEN [raised |-> TRUE, searched |-> FALSE, score |-> 0]
    ELSE _compute_visual_similarity(reference.bytes, test.bytes, scene)

NoResult == ScoreResult(None, None, None, "")

\* compare_pills_vlm as a whole.  raised is "none", "VLMCompareError" (a
\* download or decode failure) or "Exception" (anything else); same_bytes says
\* that both downloads delivered the same bytes; searched and visual say what
\* _compute_visual_similarity did.
SameBytes(reference, test) ==
    reference.ok /\ test.ok /\ reference.bytes = test.bytes
Outcome(raised, same_bytes, v, result) ==
    [raised |-> raised, same_bytes |-> same_bytes,
     searched |-> v.searched, visual |-> v.score, result |-> result]
compare_pills_vlm(input, api_key, medicine_id) ==
    LET v == FetchStage(input.reference, input.test, input.scene)
        same == SameBytes(input.reference, input.test)
        merged == EmbeddingMerge(
                      v.score,
                      _compute_embedding_similarity(input.reference_embedding,
                                                    input.test_embedding))
        st == VlmStage(input.response, merged, medicine_id)
    IN  IF v.raised THEN Outcome("VLMCompareError", same, v, NoResult)
        ELSE IF ~api_key
        THEN Outcome("none", same, v, Degraded(v.score, ReasonNoKey))
        ELSE IF st.raised THEN Outcome("Exception", same, v, NoResult)
        ELSE Outcome("none", same, v, st.result)

\* ------------------------------------------------------------ environment
\* What the outside world can hand to the program.
Urls == {"A", "B"}
NoUrl == ""

ReferenceFetches ==
    {FetchFailed, Fetched(Bytes(1, TRUE)), Fetched(Bytes(2, TRUE)),
     Fetched(Bytes(3, FALSE))}
TestFetches ==
    {FetchFailed, Fetched(Bytes(1, TRUE)), Fetched(Bytes(3, FALSE))}

Low == Features(Pct(30), Pct(30), Pct(30), Pct(30))
LowScene == Scene(Low, Low, 0)
Scenes ==
    {Scene(Features(Pct(90), Pct(82), Pct(85), Pct(80)), Low, 90), LowScene}

ReferenceEmbeddings ==
    {EmbFailed, EmbOk(EmbNotList), EmbOk(EmbList(<<0, 0>>)),
     EmbOk(EmbList(<<1, 0>>)), EmbOk(EmbNested(<<0, 1>>)),
     EmbOk(EmbList(<<-1, 0>>)), EmbOk(EmbList(<<1>>))}
TestEmbeddings ==
    {EmbFailed, EmbOk(EmbList(<<0, 0>>)), EmbOk(EmbList(<<1, 0>>))}

\* Objects the vision-language model can report.
TextPairs ==
    {<<NotStr, NotStr>>,
     <<Str(<<"Ibuprofen", "200mg">>), Str(<<"ibuprofen", "mg">>)>>}
ScoredObjs ==
    {[EmptyObj EXCEPT !.image_similarity = i, !.text_similarity = t,
                      !.final_score = f, !.has_match = TRUE,
                      !.detected_text_reference = d[1],
                      !.detected_text_test = d[2],
                      !.active_ingredient = a] :
        i \in {Missing, NonNumeric, Huge, Num(Pct(40)), Num(Pct(150))},
        t \in {Missing, NonNumeric, Num(Pct(10))},
        f \in {Missing, NonNumeric, Num(Pct(65))},
        d \in TextPairs,
        a \in {NotStr, Str(<<"TAB">>)}}
\* Objects that use the alternative keys, null, NaN, negative numbers, a reason;
\* NullFinalObj is {"final_score": null, "final_similarity_score": 0.9, ...}.
AltKeysObj ==
    [EmptyObj EXCEPT !.similarity_score = Num(Pct(95)),
                     !.final_similarity_score = Num(Pct(20)),
                     !.text_similarity = Null]
NaNObj ==
    [EmptyObj EXCEPT !.image_similarity = NaN, !.text_similarity = Num(-Pct(50)),
                     !.has_reason = TRUE]
NullFinalObj ==
    [EmptyObj EXCEPT !.final_score = Null,
                     !.final_similarity_score = Num(Pct(90)),
                     !.text_similarity = Num(Pct(150)),
                     !.strength = Str(<<"200mg">>)]
HugeObj == [EmptyObj EXCEPT !.similarity_score = Huge, !.has_match = TRUE]
OtherObjs == {AltKeysObj, NaNObj, NullFinalObj, HugeObj, EmptyObj}
Objs == ScoredObjs \cup OtherObjs
\* The objects delivered inside a wrapper (generated_text, list).
WrappedObjs ==
    OtherObjs \cup
    {o \in ScoredObjs : o.detected_text_reference = NotStr /\ o.active_ingredient = NotStr}

Generated(kind) == [EmptyObj EXCEPT !.generated_text = kind]
Direct(o) == Payload("dict", o, EmptyObj)
InGeneratedText(o) == Payload("dict", Generated("json"), o)
UnusablePayloads ==
    {Payload("dict", [EmptyObj EXCEPT !.error = TRUE], EmptyObj),
     Payload("dict", [EmptyObj EXCEPT !.error = TRUE,
                                      !.image_similarity = Num(One)], EmptyObj),
     Payload("dict", Generated("empty"), EmptyObj),
     Payload("dict", Generated("nojson"), EmptyObj),
     Payload("dict", Generated("badjson"), EmptyObj),
     Payload("dict", Generated("nonstring"), EmptyObj),
     Payload("dict", EmptyObj, EmptyObj),
     Payload("list", Generated("nojson"), EmptyObj),
     Payload("list", [Generated("badjson") EXCEPT !.image_similarity = Num(One)],
             EmptyObj),
     Payload("list", EmptyObj, EmptyObj),
     Payload("list", [EmptyObj EXCEPT !.error = TRUE], EmptyObj),
     Payload("empty_list", EmptyObj, EmptyObj),
     Payload("list_other", EmptyObj, EmptyObj),
     Payload("other", EmptyObj, EmptyObj)}
\* A list whose first element has an error key and a score key: the error
\* key is read on a top-level object only, so this one is used as it is.
ErrorInList ==
    Payload("list", [EmptyObj EXCEPT !.error = TRUE,
                                     !.final_score = Num(Pct(65))], EmptyObj)
Payloads ==
    {Direct(o) : o \in {x \in Objs : HasScoreKey(x)}}
    \cup {InGeneratedText(o) : o \in WrappedObjs}
    \cup {Payload("list", o, EmptyObj) : o \in {x \in WrappedObjs : HasScoreKey(x)}}
    \cup {Payload("list", Generated("json"), o) : o \in OtherObjs}
    \cup {ErrorInList}
    \cup UnusablePayloads
TransportFailure == VlmResponse(FALSE, FALSE, Payload("other", EmptyObj, EmptyObj))
NotJson == VlmResponse(TRUE, FALSE, Payload("other", EmptyObj, EmptyObj))
Reply(p) == VlmResponse(TRUE, TRUE, p)
VlmResponses == {TransportFailure, NotJson} \cup {Reply(p) : p \in Payloads}

\* The calls of compare_pills_vlm the request handler is run against: every
\* download, decode and embedding case with two replies, and every kind of
\* reply with two visual cases.
PlainReplies == {TransportFailure, Reply(InGeneratedText(EmptyObj))}
KindsOfReply ==
    {NotJson, Reply(Payload("dict", [EmptyObj EXCEPT !.error = TRUE], EmptyObj)),
     Reply(Direct([EmptyObj EXCEPT !.image_similarity = Num(Pct(40)),
                                   !.text_similarity = Num(Pct(10)),
                                   !.final_score = Num(Pct(65))])),
     Reply(Direct([EmptyObj EXCEPT !.image_similarity = Num(Pct(150)),
                                   !.detected_text_reference =
                                       Str(<<"Ibuprofen", "200mg">>),
                                   !.detected_text_test = Str(<<"ibuprofen", "mg">>)])),
     Reply(Direct([EmptyObj EXCEPT !.image_similarity = NonNumeric,
                                   !.text_similarity = NonNumeric,
                                   !.final_score = NonNumeric,
                                   !.active_ingredient = Str(<<"TAB">>)])),
     Reply(Direct([EmptyObj EXCEPT !.final_score = Num(Pct(150)),
                                   !.text_similarity = Num(Pct(10))])),
     Reply(Direct([EmptyObj EXCEPT !.final_score = Num(Pct(65))])),
     Reply(Payload("list", Generated("json"), AltKeysObj)),
     Reply(InGeneratedText(NaNObj)),
     Reply(InGeneratedText(NullFinalObj)),
     Reply(Direct(HugeObj))}
HandlerCalls ==
    {CallInput(reference, test, scene, re, te, response) :
        reference \in ReferenceFetches, test \in TestFetches, scene \in Scenes,
        re \in ReferenceEmbeddings, te \in TestEmbeddings,
        response \in PlainReplies}
    \cup
    {CallInput(Fetched(Bytes(2, TRUE)), Fetched(Bytes(1, TRUE)), LowScene,
               re, EmbOk(EmbList(<<1, 0>>)), response) :
        re \in {EmbFailed, EmbOk(EmbNested(<<0, 1>>))},
        response \in KindsOfReply}

\* What compare_pills_vlm can do in a request, by API key and medicine.
HandlerOutcomes ==
    {[api_key |-> api_key, medicine_id |-> medicine_id,
      outcome |-> compare_pills_vlm(input, api_key, medicine_id)] :
        api_key \in BOOLEAN, medicine_id \in MedicineIds, input \in HandlerCalls}

\* ------------------------------------------------------------------ state
Reqs == 1..NumSlots

VARIABLES
    has_supabase,     \* app.supabase is not None (SUPABASE_URL and key are set)
    hf_api_key,       \* vlm_compare.HF_API_KEY is set
    ledger,           \* rows of medicine_verification_attempts for the patient
                      \* and today, per medicine_id
    started,          \* requests accepted so far
    pc,               \* where each request's handler stands
    request,          \* CompareRequest
    attempts,         \* attempts_used, attempts_remaining
    reference_urls,   \* the deduplicated candidate list
    idx,              \* position of the candidate loop in reference_urls
    best,             \* best_payload, best_reference_url, best_score
    candidate,        \* what the last call of compare_pills_vlm did
    seen,             \* history: the result of every candidate evaluated
    calls,            \* calls of compare_pills_vlm made by the request
    exc,              \* the except clause the comparison ended in
    loc,              \* reference_url, similarity_score, ..., match, approved
    rec,              \* calls of _record_attempt made by the request, and the row
    resp,             \* the HTTP response
    frame             \* one call of compare_pills_vlm taken step by step

config == <<has_supabase, hf_api_key>>
handler == <<ledger, started, pc, request, attempts, reference_urls, idx, best,
             candidate, seen, calls, exc, loc, rec, resp>>
loop == <<reference_urls, idx, best, candidate, seen, calls, exc>>
vars == <<has_supabase, hf_api_key, ledger, started, pc, request, attempts,
          reference_urls, idx, best, candidate, seen, calls, exc, loc, rec, resp,
          frame>>

\* best_score starts at -1.0.
NoBest == [has |-> FALSE, payload |-> NoResult, reference_url |-> NoUrl, score |-> -One]
NoCandidate ==
    Outcome("none", FALSE, [raised |-> TRUE, searched |-> FALSE, score |-> 0],
            NoResult)
NoPayload == [reference_image_url |-> NoUrl, medicine_id |-> MedShort]
\* counted: what _count_attempts returned when the request started.
NoAttempts == [counted |-> 0, used |-> 0, remaining |-> 0]
NoRow ==
    [reference_image_url |-> NoUrl, similarity_score |-> None,
     text_similarity_score |-> None, final_similarity_score |-> None,
     match |-> FALSE, approved |-> FALSE]
NoRec == [calls |-> 0, inserted |-> FALSE, raised |-> FALSE, row |-> NoRow]
NoResp ==
    [status |-> 0, similarity_score |-> None, text_similarity_score |-> None,
     final_similarity_score |-> None, match |-> FALSE, attempts_used |-> 0,
     attempts_remaining |-> 0, approved |-> FALSE]
\* compare_images, lines 230-235: the locals before the comparison.
InitialLocals(reference_url) ==
    [reference_url |-> reference_url, similarity_score |-> 0,
     text_similarity_score |-> None, final_similarity_score |-> 0,
     match |-> FALSE, approved |-> FALSE]
NoLocals == InitialLocals(NoUrl)

\* compare_pills_vlm is not running.
NoFrame ==
    [stage |-> "idle", medicine_id |-> MedShort,
     visual |-> [raised |-> FALSE, searched |-> FALSE, score |-> 0],
     same_bytes |-> FALSE, embedding_similarity |-> None,
     visual_similarity |-> 0, asked |-> FALSE, response |-> TransportFailure,
     features |-> Low, pair_similarity |-> 0,
     embeddings |-> <<EmbFailed, EmbFailed>>,
     raised |-> "none", result |-> NoResult]

LedgerStarts == (MAX_ATTEMPTS - PriorSlack)..MAX_ATTEMPTS

\* The service after start-up, the ledger holding one of "starts" rows for
\* each medicine of today.
Boot(starts) ==
    /\ has_supabase \in BOOLEAN
    /\ hf_api_key \in BOOLEAN
    /\ \E n \in starts :
           ledger = [m \in MedicineIds |-> IF has_supabase THEN n ELSE 0]
    /\ started = 0
    /\ pc = [r \in Reqs |-> "idle"]
    /\ request = [r \in Reqs |-> NoPayload]
    /\ attempts = [r \in Reqs |-> NoAttempts]
    /\ reference_urls = [r \in Reqs |-> <<>>]
    /\ idx = [r \in Reqs |-> 0]
    /\ best = [r \in Reqs |-> NoBest]
    /\ candidate = [r \in Reqs |-> NoCandidate]
    /\ seen = [r \in Reqs |-> <<>>]
    /\ calls = [r \in Reqs |-> 0]
    /\ exc = [r \in Reqs |-> "none"]
    /\ loc = [r \in Reqs |-> NoLocals]
    /\ rec = [r \in Reqs |-> NoRec]
    /\ resp = [r \in Reqs |-> NoResp]
    /\ frame = NoFrame

Init == Boot(LedgerStarts)

\* ------------------------------------------------------------ attempt gate
\* A count that never reads the ledger.
_count_attempts_without_ledger(medicine_id, query_ok) == 0

\* app._count_attempts: 0 without a client, 0 when the query raises APIError,
\* else the number of rows for (patient_id, medicine_id, today).
_count_attempts(medicine_id, query_ok) ==
    IF ~has_supabase THEN 0
    ELSE IF ~query_ok THEN 0
    ELSE ledger[medicine_id]

\* compare_images, lines 207 and 307.
AttemptsRemaining(attempts_used) == Max2(0, MAX_ATTEMPTS - attempts_used)

\* The gate as it would be with a comparison that zero never satisfies.
ExhaustedBelowZero(attempts_remaining) == attempts_remaining < 0

\* compare_images, line 209.
Exhausted(attempts_remaining) == attempts_remaining = 0

\* pydantic's validation of CompareResponse (ge=0.0, le=1.0, ge=0).
ValidResponse(r) ==
    /\ r.similarity_score >= 0 /\ r.similarity_score <= One
    /\ r.text_similarity_score = None
           \/ (r.text_similarity_score >= 0 /\ r.text_similarity_score <= One)
    /\ r.final_similarity_score >= 0 /\ r.final_similarity_score <= One
    /\ r.attempts_used >= 0
    /\ r.attempts_remaining >= 0
CompareResponse(fields) ==
    [fields EXCEPT !.status = IF ValidResponse(fields) THEN 200 ELSE 500]

\* compare_images, lines 210-218.
ExhaustedResponse(attempts_used, attempts_remaining) ==
    CompareResponse(
        [status |-> 0, similarity_score |-> 0, text_similarity_score |-> None,
         final_similarity_score |-> 0, match |-> FALSE,
         attempts_used |-> attempts_used,
         attempts_remaining |-> attempts_remaining, approved |-> FALSE])

\* compare_images, lines 204-218, for request r with its payload; query_ok
\* tells whether the ledger query succeeds.
Request(r, url, medicine_id, query_ok) ==
    /\ pc[r] = "idle"
    /\   LET attempts_used == _count_attempts(medicine_id, query_ok)
             attempts_remaining == AttemptsRemaining(attempts_used)
         IN  /\ request' = [request EXCEPT
                              ![r] = [reference_image_url |-> url,
                                      medicine_id |-> medicine_id]]
             /\ attempts' = [attempts EXCEPT
                               ![r] = [counted |-> attempts_used,
                                       used |-> attempts_used,
                                       remaining |-> attempts_remaining]]
             /\ IF Exhausted(attempts_remaining)
                THEN /\ resp' = [resp EXCEPT
                                   ![r] = ExhaustedResponse(attempts_used,
                                                            attempts_remaining)]
                     /\ pc' = [pc EXCEPT ![r] = "done"]
                ELSE /\ resp' = resp
                     /\ pc' = [pc EXCEPT ![r] = "resolve"]
    /\ started' = started + 1
    /\ UNCHANGED <<config, frame, ledger, loop, loc, rec>>

\* A request arrives (at most MaxRequests of them).
Start(r) ==
    /\ started < MaxRequests
    /\ \E url \in {NoUrl, "A"}, medicine_id \in MedicineIds, query_ok \in BOOLEAN :
           Request(r, url, medicine_id, query_ok)

\* ---------------------------------------------------- reference candidates
RECURSIVE SeqsUpTo(_, _)
SeqsUpTo(S, n) ==
    IF n = 0 THEN {<<>>}
    ELSE LET shorter == SeqsUpTo(S, n - 1)
         IN  shorter \cup {Append(q, x) : q \in shorter, x \in S}

\* What the storage listing yields after signing, most recent first: the
\* objects of a listing are distinct, and so are their URLs.
ResolvedLists ==
    {q \in SeqsUpTo(Urls, MaxResolved) :
        \A i, j \in 1..Len(q) : i # j => q[i] # q[j]}

\* app._resolve_reference_urls: nothing without a client, else the signed
\* URLs of the listed objects (an empty list when the caregiver is unknown,
\* the listing fails or is empty, or no URL can be signed).
_resolve_reference_urls(signed_urls) ==
    IF ~has_supabase THEN <<>> ELSE signed_urls

\* list(dict.fromkeys(urls)): first occurrences, in order.
RECURSIVE Dedupe(_)
Dedupe(urls) ==
    IF urls = <<>> THEN <<>>
    ELSE LET front == Dedupe(SubSeq(urls, 1, Len(urls) - 1))
             last == urls[Len(urls)]
         IN  IF \E i \in 1..Len(front) : front[i] = last THEN front
             ELSE Append(front, last)

\* compare_images, lines 220-225.
ReferenceUrls(reference_image_url, signed_urls) ==
    Dedupe((IF reference_image_url # NoUrl THEN <<reference_image_url>> ELSE <<>>)
               \o _resolve_reference_urls(signed_urls))

\* An empty list answered as an ordinary empty response.
NotFoundAsEmptyResult == [NoResp EXCEPT !.status = 200]

\* compare_images, lines 227-228: HTTPException(status_code=404).
NotFound == [NoResp EXCEPT !.status = 404]

\* compare_images, lines 220-240, for request r.
Resolve(r) ==
    /\ pc[r] = "resolve"
    /\ \E signed_urls \in ResolvedLists :
         LET urls == ReferenceUrls(request[r].reference_image_url, signed_urls)
         IN  /\ reference_urls' = [reference_urls EXCEPT ![r] = urls]
             /\ IF urls = <<>>
                THEN /\ resp' = [resp EXCEPT ![r] = NotFound]
                     /\ pc' = [pc EXCEPT ![r] = "done"]
                     /\ UNCHANGED <<idx, best, loc>>
                ELSE /\ resp' = resp
                     /\ pc' = [pc EXCEPT ![r] = "compare"]
                     /\ idx' = [idx EXCEPT ![r] = 1]
                     /\ loc' = [loc EXCEPT ![r] = InitialLocals(urls[1])]
                     /\ best' = [best EXCEPT
                                   ![r] = [NoBest EXCEPT !.reference_url = urls[1]]]
    /\ UNCHANGED <<config, frame, ledger, started, request, attempts, candidate,
                   seen, calls, exc, rec>>

\* ------------------------------------------------------- the candidate loop
\* compare_images, lines 248-250.
CandidateScore(result) == _normalize_score(Num(result.final_score), 0)

\* The comparison of line 251 with >=: the last of equal candidates wins.
BetterOrEqual(candidate_score, best_score) == candidate_score >= best_score

\* compare_images, line 251: the strictly better candidate is kept.
Better(candidate_score, best_score) == candidate_score > best_score

\* compare_images, lines 251-254.
Select(current, result, candidate_reference_url) ==
    IF Better(CandidateScore(result), current.score)
    THEN [has |-> TRUE, payload |-> result,
          reference_url |-> candidate_reference_url,
          score |-> CandidateScore(result)]
    ELSE current

\* compare_images, lines 242-254, for request r: one pass of the loop.  An
\* exception of compare_pills_vlm leaves the loop for the except clauses.
Evaluate(r) ==
    /\ pc[r] = "compare"
    /\ \E call \in HandlerOutcomes :
         LET o == call.outcome IN
         /\ call.api_key = hf_api_key
         /\ call.medicine_id = request[r].medicine_id
         /\ candidate' = [candidate EXCEPT ![r] = o]
         /\ IF o.raised # "none"
            THEN /\ exc' = [exc EXCEPT ![r] = o.raised]
                 /\ pc' = [pc EXCEPT ![r] = "finish"]
                 /\ UNCHANGED <<best, idx, seen>>
            ELSE /\ exc' = exc
                 /\ best' = [best EXCEPT
                               ![r] = Select(best[r], o.result,
                                             reference_urls[r][idx[r]])]
                 /\ seen' = [seen EXCEPT
                               ![r] = Append(seen[r], o.result)]
                 /\ idx' = [idx EXCEPT ![r] = idx[r] + 1]
                 /\ pc' = [pc EXCEPT
                             ![r] = IF idx[r] < Len(reference_urls[r])
                                    THEN "compare" ELSE "finish"]
    /\ calls' = [calls EXCEPT ![r] = calls[r] + 1]
    /\ UNCHANGED <<config, frame, ledger, started, request, attempts,
                   reference_urls, loc, rec, resp>>

\* -------------------------------------------------------- the approval gate
\* The gate with an exclusive score threshold.
ApprovalMatchExclusive(similarity_score, text_similarity_score, final_similarity_score) ==
    /\ final_similarity_score > APPROVAL_SCORE_THRESHOLD
    /\ \/ similarity_score >= Pct(90)
       \/ text_similarity_score = None
       \/ text_similarity_score >= TEXT_SCORE_MIN_THRESHOLD

\* compare_images, lines 276-282.
ApprovalMatch(similarity_score, text_similarity_score, final_similarity_score) ==
    LET score_gate == final_similarity_score >= APPROVAL_SCORE_THRESHOLD
        text_gate == \/ similarity_score >= Pct(90)
                     \/ text_similarity_score = None
                     \/ text_similarity_score >= TEXT_SCORE_MIN_THRESHOLD
    IN  score_gate /\ text_gate

\* compare_images, lines 259-283: the locals after a comparison that did not
\* raise.  The dict compare_pills_vlm returns always has the keys
\* image_similarity, text_similarity and final_score, so the alternative keys
\* and the blend of lines 271-274 are never used.
ScoredLocals(b) ==
    LET similarity_score == _normalize_score(Num(b.payload.image_similarity), 0)
        raw_text_score == b.payload.text_similarity
        text_similarity_score ==
            IF raw_text_score = None THEN None
            ELSE _normalize_score(Num(raw_text_score), 0)
        final_similarity_score ==
            _normalize_score(Num(b.payload.final_score), similarity_score)
        match == ApprovalMatch(similarity_score, text_similarity_score,
                               final_similarity_score)
    IN  [reference_url |-> b.reference_url,
         similarity_score |-> similarity_score,
         text_similarity_score |-> text_similarity_score,
         final_similarity_score |-> final_similarity_score,
         match |-> match, approved |-> match]

\* Locals that keep the best candidate scored before an exception.
LocalsKeepingBest(raised, b, initial) ==
    IF b.has THEN ScoredLocals(b) ELSE initial

\* compare_images, lines 256-288: the locals the comparison leaves behind; an
\* exception leaves the values of lines 230-235.
LocalsAfterComparison(raised, b, initial) ==
    IF raised = "none" /\ b.has THEN ScoredLocals(b) ELSE initial

\* ------------------------------------------------------------ ledger record
\* The row compare_images hands to _record_attempt (lines 291-302).
AttemptRow(l) ==
    [reference_image_url |-> l.reference_url,
     similarity_score |-> l.similarity_score,
     text_similarity_score |-> l.text_similarity_score,
     final_similarity_score |-> l.final_similarity_score,
     match |-> l.match, approved |-> l.approved]

\* app._record_attempt: outcome is "ok", "api_error" (APIError, logged inside)
\* or "error" (any other exception, which leaves _record_attempt and is
\* caught at line 303).  [inserted, raised].
_record_attempt(outcome) ==
    IF ~has_supabase THEN [inserted |-> FALSE, raised |-> FALSE]
    ELSE IF outcome = "ok" THEN [inserted |-> TRUE, raised |-> FALSE]
    ELSE IF outcome = "api_error" THEN [inserted |-> FALSE, raised |-> FALSE]
    ELSE [inserted |-> FALSE, raised |-> TRUE]

\* Lines 290-304 without the except clause: the failure reaches the client.
AfterRecordReraising(written, response) ==
    IF written.raised THEN [response EXCEPT !.status = 500] ELSE response

\* compare_images, lines 290-304: whatever _record_attempt raises is logged
\* and the request goes on to its response.
AfterRecord(written, response) == response

\* Line 306 left out: the count is reported as it was read.
UsedAfterUnchanged(attempts_used) == attempts_used

\* compare_images, line 306.
UsedAfter(attempts_used) == attempts_used + 1

\* compare_images, lines 309-317.
FinalResponse(l, attempts_used) ==
    CompareResponse(
        [status |-> 0,
         similarity_score |-> l.similarity_score,
         text_similarity_score |-> l.text_similarity_score,
         final_similarity_score |-> l.final_similarity_score,
         match |-> l.match,
         attempts_used |-> attempts_used,
         attempts_remaining |-> AttemptsRemaining(attempts_used),
         approved |-> l.approved])

\* compare_images, lines 256-317, for request r: the gate (or the except
\* clause), the ledger record with its outcome, the response.
Record(r, outcome) ==
    /\ pc[r] = "finish"
    /\   LET l == LocalsAfterComparison(exc[r], best[r], loc[r])
             written == _record_attempt(outcome)
             attempts_used == UsedAfter(attempts[r].used)
         IN  /\ loc' = [loc EXCEPT ![r] = l]
             /\ rec' = [rec EXCEPT
                          ![r] = [calls |-> rec[r].calls + 1,
                                  inserted |-> written.inserted,
                                  raised |-> written.raised,
                                  row |-> AttemptRow(l)]]
             /\ ledger' = IF written.inserted
                          THEN [ledger EXCEPT ![request[r].medicine_id] = @ + 1]
                          ELSE ledger
             /\ attempts' = [attempts EXCEPT
                               ![r] = [counted |-> attempts[r].counted,
                                       used |-> attempts_used,
                                       remaining |-> AttemptsRemaining(attempts_used)]]
             /\ resp' = [resp EXCEPT
                           ![r] = AfterRecord(written,
                                              FinalResponse(l, attempts_used))]
    /\ pc' = [pc EXCEPT ![r] = "done"]
    /\ UNCHANGED <<config, frame, started, request, loop>>

\* The insert succeeds, fails with APIError, or _record_attempt raises.
Finish(r) == \E outcome \in {"ok", "api_error", "error"} : Record(r, outcome)

\* The response has been sent: the handler's frame is gone.
Return(r) ==
    /\ pc[r] = "done"
    /\ pc' = [pc EXCEPT ![r] = "idle"]
    /\ request' = [request EXCEPT ![r] = NoPayload]
    /\ attempts' = [attempts EXCEPT ![r] = NoAttempts]
    /\ reference_urls' = [reference_urls EXCEPT ![r] = <<>>]
    /\ idx' = [idx EXCEPT ![r] = 0]
    /\ best' = [best EXCEPT ![r] = NoBest]
    /\ candidate' = [candidate EXCEPT ![r] = NoCandidate]
    /\ seen' = [seen EXCEPT ![r] = <<>>]
    /\ calls' = [calls EXCEPT ![r] = 0]
    /\ exc' = [exc EXCEPT ![r] = "none"]
    /\ loc' = [loc EXCEPT ![r] = NoLocals]
    /\ rec' = [rec EXCEPT ![r] = NoRec]
    /\ resp' = [resp EXCEPT ![r] = NoResp]
    /\ UNCHANGED <<config, frame, ledger, started>>

\* compare_images is an async def without an await: the event loop runs each
\* call to its end before it takes the next request, so one frame exists at
\* a time.
Serving == {1}

Next ==
    \E r \in Serving :
        \/ Start(r)
        \/ Resolve(r)
        \/ Evaluate(r)
        \/ Finish(r)
        \/ Return(r)

Spec == Init /\ [][Next]_vars

\* ------------------------------------------------ requests for one ledger key
\* The patient's requests for one medicine on one day, each with a reference
\* URL, the ledger query succeeding.
Arrive(r) == Request(r, "A", MedShort, TRUE)

\* How many requests follow the MAX_ATTEMPTS-th.
ExtraRequests == 2

\* The requests handled one after another, from an empty ledger.
SequentialInit == Boot({0}) /\ has_supabase

SequentialNext ==
    \/ started < MAX_ATTEMPTS + ExtraRequests /\ Arrive(1)
    \/ Resolve(1)
    \/ Evaluate(1)
    \/ Record(1, "ok")
    \/ Return(1)

SequentialSpec == SequentialInit /\ [][SequentialNext]_vars

\* The same requests handled by several workers at once, each with its own
\* frame of compare_images: the ledger query of line 205 and the insert of
\* line 291 are two calls of the ledger service, and the steps of the other
\* requests come between them.  The service runs without an API key.
ConcurrentInit == Init /\ has_supabase /\ ~hf_api_key

ConcurrentNext ==
    \E r \in Reqs :
        \/ started < MaxRequests + 1 /\ Arrive(r)
        \/ Resolve(r)
        \/ Evaluate(r)
        \/ Finish(r)
        \/ Return(r)

ConcurrentSpec == ConcurrentInit /\ [][ConcurrentNext]_vars

\* ------------------------------------------- compare_pills_vlm, step by step
\* The same function as the operator compare_pills_vlm, one stage at a time,
\* against everything the outside world can answer at each stage.

\* compare_pills_vlm, lines 276-278: both downloads and the visual score.
Download ==
    /\ frame.stage = "idle"
    /\ \E medicine_id \in MedicineIds, reference \in ReferenceFetches,
          test \in TestFetches, scene \in Scenes :
         LET v == FetchStage(reference, test, scene)
         IN  frame' = [NoFrame EXCEPT
                          !.stage = IF v.raised THEN "raised" ELSE "visual",
                          !.medicine_id = medicine_id,
                          !.visual = v,
                          !.same_bytes = SameBytes(reference, test),
                          !.visual_similarity = v.score,
                          !.raised = IF v.raised THEN "VLMCompareError" ELSE "none"]
    /\ UNCHANGED <<config, handler>>

\* compare_pills_vlm, lines 280-288: no API key, the visual score is returned.
WithoutKey ==
    /\ frame.stage = "visual"
    /\ ~hf_api_key
    /\ frame' = [frame EXCEPT
                    !.stage = "returned",
                    !.result = Degraded(frame.visual_similarity, ReasonNoKey)]
    /\ UNCHANGED <<config, handler>>

\* compare_pills_vlm, lines 290-292: the embedding similarity is merged in.
Embed ==
    /\ frame.stage = "visual"
    /\ hf_api_key
    /\ \E reference_embedding \in ReferenceEmbeddings,
          test_embedding \in TestEmbeddings :
         LET embedding_similarity ==
                 _compute_embedding_similarity(reference_embedding, test_embedding)
         IN  frame' = [frame EXCEPT
                          !.stage = "merged",
                          !.embeddings = <<reference_embedding, test_embedding>>,
                          !.embedding_similarity = embedding_similarity,
                          !.visual_similarity =
                              EmbeddingMerge(frame.visual_similarity,
                                             embedding_similarity)]
    /\ UNCHANGED <<config, handler>>

\* compare_pills_vlm, lines 294-409: the vision-language call, the parsing of
\* its reply and the fusion.
AskModel ==
    /\ frame.stage = "merged"
    /\ \E response \in VlmResponses :
         LET st == VlmStage(response, frame.visual_similarity, frame.medicine_id)
         IN  frame' = [frame EXCEPT
                          !.stage = IF st.raised THEN "raised" ELSE "returned",
                          !.asked = TRUE,
                          !.response = response,
                          !.raised = IF st.raised THEN "Exception" ELSE "none",
                          !.result = IF st.raised THEN NoResult ELSE st.result]
    /\ UNCHANGED <<config, handler>>

\* The call is over.
Leave ==
    /\ frame.stage \in {"returned", "raised"}
    /\ frame' = NoFrame
    /\ UNCHANGED <<config, handler>>

PipelineNext ==
    \/ Download
    \/ WithoutKey
    \/ Embed
    \/ AskModel
    \/ Leave

PipelineSpec == Init /\ [][PipelineNext]_vars

\* ------------------------------------------------ one pair of the search
\* What each of the four extractors can return for a pair of variants.
FeatureLevels == {Pct(0), Pct(30), Pct(80), Pct(82), Pct(85), Pct(90), Pct(100)}

\* _compute_visual_similarity, lines 228-232: one pair of variants is scored.
ScorePair ==
    /\ frame.stage = "idle"
    /\ \E p \in FeatureLevels, h \in FeatureLevels, e \in FeatureLevels,
          s \in FeatureLevels :
         LET f == Features(p, h, e, s)
         IN  frame' = [NoFrame EXCEPT
                          !.stage = "pair",
                          !.features = f,
                          !.pair_similarity = _compute_pair_similarity(f)]
    /\ UNCHANGED <<config, handler>>

\* The search goes on to the next pair of variants.
NextPair ==
    /\ frame.stage = "pair"
    /\ frame' = NoFrame
    /\ UNCHANGED <<config, handler>>

PairNext == ScorePair \/ NextPair

PairSpec == Init /\ [][PairNext]_vars

\* ------------------------------------------------------------- properties
InUnit(x) == x >= 0 /\ x <= One
Answered(r) == pc[r] = "done"

\* C1: a request that starts with counted attempts >= MAX_ATTEMPTS never
\* invokes compare_pills_vlm, records no attempt, and answers zero scores,
\* no text score, match and approved false, attempts_used equal to the count
\* and attempts_remaining 0.
C1_ExhaustedGate ==
    \A r \in Reqs :
        (pc[r] # "idle" /\ attempts[r].counted >= MAX_ATTEMPTS) =>
            /\ pc[r] = "done"
            /\ calls[r] = 0
            /\ rec[r].calls = 0
            /\ resp[r] =
                   [status |-> 200, similarity_score |-> 0,
                    text_similarity_score |-> None,
                    final_similarity_score |-> 0, match |-> FALSE,
                    attempts_used |-> attempts[r].counted,
                    attempts_remaining |-> 0, approved |-> FALSE]
C1_Witness ==
    \E r \in Reqs :
        Answered(r) /\ attempts[r].counted >= MAX_ATTEMPTS /\ resp[r].status = 200

\* The attempt accounting of a request that passed the gate and had a
\* reference: one call of _record_attempt, attempts_used = used + 1,
\* attempts_remaining = max(0, MAX_ATTEMPTS - used - 1).
Accounted(r) ==
    LET used == attempts[r].counted
    IN  /\ rec[r].calls = 1
        /\ resp[r].attempts_used = used + 1
        /\ resp[r].attempts_remaining = Max2(0, MAX_ATTEMPTS - used - 1)
        /\ used = MAX_ATTEMPTS - 1 =>
               /\ resp[r].attempts_used = MAX_ATTEMPTS
               /\ resp[r].attempts_remaining = 0
Scored(r) ==
    /\ Answered(r)
    /\ attempts[r].counted < MAX_ATTEMPTS
    /\ reference_urls[r] # <<>>

\* C2: with used < MAX_ATTEMPTS and a reference URL available the pipeline
\* runs once for the request (one pass of the candidate loop: each candidate
\* URL is evaluated at most once, all of them unless one raises), the attempt
\* is recorded once, and the response reports attempts_used = used + 1 and
\* attempts_remaining = max(0, MAX_ATTEMPTS - used - 1); with used =
\* MAX_ATTEMPTS - 1 that is attempts_used = MAX_ATTEMPTS, remaining 0.
C2_RunsOnceAndCounts ==
    \A r \in Reqs :
        Scored(r) =>
            /\ calls[r] >= 1
            /\ calls[r] <= Len(reference_urls[r])
            /\ exc[r] = "none" => calls[r] = Len(reference_urls[r])
            /\ exc[r] # "none" => candidate[r].raised = exc[r]
            /\ Accounted(r)
C2_Witness ==
    \E r \in Reqs :
        /\ Scored(r)
        /\ attempts[r].counted = MAX_ATTEMPTS - 1
        /\ calls[r] = 1
        /\ rec[r].inserted
        /\ resp[r].attempts_used = MAX_ATTEMPTS
        /\ resp[r].attempts_remaining = 0

\* C3: when attempts remain and the deduplicated list of reference URLs is
\* empty, the request ends with status 404, compare_pills_vlm is not
\* invoked and no attempt is recorded.
C3_NoReference ==
    \A r \in Reqs :
        (/\ pc[r] \in {"compare", "finish", "done"}
         /\ attempts[r].counted < MAX_ATTEMPTS
         /\ reference_urls[r] = <<>>) =>
            /\ pc[r] = "done"
            /\ resp[r].status = 404
            /\ calls[r] = 0
            /\ rec[r].calls = 0
C3_Witness ==
    \E r \in Reqs :
        /\ Answered(r)
        /\ attempts[r].counted < MAX_ATTEMPTS
        /\ reference_urls[r] = <<>>
        /\ has_supabase
        /\ resp[r].status = 404

\* C4: after a comparison that did not raise, the response has match true
\* exactly when final_similarity_score >= APPROVAL_SCORE_THRESHOLD and
\* (similarity_score >= 0.9 or text_similarity_score is absent or
\* text_similarity_score >= TEXT_SCORE_MIN_THRESHOLD), and approved = match.
C4_ApprovalGate ==
    \A r \in Reqs :
        (Scored(r) /\ exc[r] = "none") =>
            /\ resp[r].match <=>
                   /\ resp[r].final_similarity_score >= APPROVAL_SCORE_THRESHOLD
                   /\ \/ resp[r].similarity_score >= Pct(90)
                      \/ resp[r].text_similarity_score = None
                      \/ resp[r].text_similarity_score >= TEXT_SCORE_MIN_THRESHOLD
            /\ resp[r].approved = resp[r].match
C4_Witness ==
    \E r \in Reqs :
        /\ Scored(r)
        /\ exc[r] = "none"
        /\ resp[r].final_similarity_score = APPROVAL_SCORE_THRESHOLD
        /\ resp[r].similarity_score < Pct(90)
        /\ resp[r].match

\* The position of the first candidate whose final_score no other exceeds.
FirstGreatest(results) ==
    CHOOSE i \in 1..Len(results) :
        /\ \A j \in 1..Len(results) :
               results[j].final_score <= results[i].final_score
        /\ \A j \in 1..(i - 1) :
               results[j].final_score < results[i].final_score

\* C5: when every candidate evaluates without raising, the loop keeps the
\* candidate with the strictly greatest final_score, the earliest one among
\* equals; the response scores and the recorded reference URL are its.
C5_Selection ==
    \A r \in Reqs :
        (pc[r] \in {"finish", "done"} /\ exc[r] = "none" /\ seen[r] # <<>>) =>
            LET i == FirstGreatest(seen[r])
            IN  /\ best[r].payload = seen[r][i]
                /\ best[r].reference_url = reference_urls[r][i]
                /\ Answered(r) =>
                       /\ resp[r].similarity_score = seen[r][i].image_similarity
                       /\ resp[r].text_similarity_score = seen[r][i].text_similarity
                       /\ resp[r].final_similarity_score = seen[r][i].final_score
                       /\ rec[r].row.reference_image_url = reference_urls[r][i]
                       /\ rec[r].row.final_similarity_score = seen[r][i].final_score
C5_Witness ==
    \E r \in Reqs :
        /\ Answered(r)
        /\ exc[r] = "none"
        /\ Len(seen[r]) = 2
        /\ seen[r][1].final_score = seen[r][2].final_score
        /\ seen[r][1] # seen[r][2]
        /\ rec[r].row.reference_image_url = reference_urls[r][1]

\* C6: in every response that carries scores, similarity_score and
\* final_similarity_score are in [0, 1] and text_similarity_score is absent
\* or in [0, 1]; so are image_similarity, final_score and text_similarity of
\* every result compare_pills_vlm returned, whatever the endpoints sent.
BoundedResult(result) ==
    /\ InUnit(result.image_similarity)
    /\ InUnit(result.final_score)
    /\ result.text_similarity = None \/ InUnit(result.text_similarity)
C6_ScoresBounded ==
    \A r \in Reqs :
        /\ (Answered(r) /\ resp[r].status # 404) =>
               /\ resp[r].status = 200
               /\ InUnit(resp[r].similarity_score)
               /\ InUnit(resp[r].final_similarity_score)
               /\ \/ resp[r].text_similarity_score = None
                  \/ InUnit(resp[r].text_similarity_score)
        /\ \A i \in 1..Len(seen[r]) : BoundedResult(seen[r][i])
        /\ (calls[r] > 0 /\ candidate[r].raised = "none") =>
               BoundedResult(candidate[r].result)
C6_Witness ==
    \E r \in Reqs :
        /\ Answered(r)
        /\ hf_api_key
        /\ Len(seen[r]) = 1
        /\ ~candidate[r].same_bytes
        /\ candidate[r].visual < One
        /\ resp[r].similarity_score = One
        /\ resp[r].text_similarity_score = 0

\* C7: when both downloads deliver the same bytes, the visual score is 1.0
\* and the variant search does not run; without an API key the response of
\* a request whose last candidate is such a pair has similarity_score 1.0,
\* final_similarity_score 1.0, match and approved true.
C7_IdenticalBytes ==
    \A r \in Reqs :
        /\ (calls[r] > 0 /\ candidate[r].same_bytes) =>
               /\ ~candidate[r].searched
               /\ candidate[r].visual = One
               /\ candidate[r].raised # "VLMCompareError"
        /\ (/\ Answered(r)
            /\ ~hf_api_key
            /\ calls[r] > 0
            /\ candidate[r].same_bytes) =>
               /\ resp[r].status = 200
               /\ resp[r].similarity_score = One
               /\ resp[r].final_similarity_score = One
               /\ resp[r].match
               /\ resp[r].approved
C7_Witness ==
    \E r \in Reqs :
        /\ Answered(r)
        /\ ~hf_api_key
        /\ calls[r] = 1
        /\ candidate[r].same_bytes
        /\ resp[r].approved

\* The ways a vision-language call fails, in the words of the interface:
\*   transport    the request failed
\*   not_json     the body is not JSON
\*   error_field  an object with an explicit error field
\*   no_json_text a generated_text without a parsable JSON object
\*   bad_shape    neither a direct object, nor a generated_text object, nor a
\*                list whose first element is one of the two
\*   none         the reply is usable
Cause(response) ==
    LET p == response.payload
        o == p.obj
    IN  IF ~response.transport_ok THEN "transport"
        ELSE IF ~response.is_json THEN "not_json"
        ELSE IF p.shape = "dict" /\ o.error THEN "error_field"
        ELSE IF p.shape = "dict" /\ HasScoreKey(o) THEN "none"
        ELSE IF p.shape = "list" /\ ~IsStringText(o.generated_text) /\ HasScoreKey(o)
        THEN "none"
        ELSE IF p.shape \in {"dict", "list"} /\ o.generated_text = "json" THEN "none"
        ELSE IF p.shape \in {"dict", "list"} /\ IsStringText(o.generated_text)
        THEN "no_json_text"
        ELSE "bad_shape"

\* The fallback reason the code gives for each cause.
ReasonOf(cause) ==
    IF cause = "transport" THEN ReasonRequestFailed
    ELSE IF cause = "not_json" THEN ReasonNotJson
    ELSE ReasonUnexpected

C9_FailureIsPerCandidate ==
    \A r \in Reqs :
        (Answered(r) /\ exc[r] = "VLMCompareError" /\ best[r].has) =>
            LET l == ScoredLocals(best[r])
            IN  /\ resp[r].similarity_score = l.similarity_score
                /\ resp[r].text_similarity_score = l.text_similarity_score
                /\ resp[r].final_similarity_score = l.final_similarity_score
                /\ resp[r].match = l.match

\* C10: when the ledger write fails (_record_attempt raises, or the insert
\* fails inside it), the response is still a 200 with the scores, match and
\* approved of the comparison and attempts_used one above the count.
C10_LedgerFailureSwallowed ==
    \A r \in Reqs :
        (Answered(r) /\ rec[r].calls = 1 /\ ~rec[r].inserted) =>
            LET l == LocalsAfterComparison(exc[r], best[r],
                                           InitialLocals(reference_urls[r][1]))
            IN  /\ resp[r].status = 200
                /\ resp[r].similarity_score = l.similarity_score
                /\ resp[r].text_similarity_score = l.text_similarity_score
                /\ resp[r].final_similarity_score = l.final_similarity_score
                /\ resp[r].match = l.match
                /\ resp[r].approved = l.approved
                /\ resp[r].attempts_used = attempts[r].counted + 1
C10_Witness ==
    \E r \in Reqs :
        /\ Answered(r)
        /\ rec[r].raised
        /\ resp[r].match
        /\ resp[r].attempts_used = MAX_ATTEMPTS

\* The weighted sum of the four features, before any boost.
WeightedSum(f) ==
    (35 * f.pixel + 25 * f.histogram + 20 * f.edge + 20 * f.hash) \div 100

\* C11: _compute_pair_similarity adds 0.08 exactly when the weighted sum
\* 0.35*pixel + 0.25*histogram + 0.20*edge + 0.20*hash is >= 0.85 (0.85
\* included), returns the sum itself otherwise, and never returns more
\* than 1.0.
C11_PairBoost ==
    frame.stage = "pair" =>
        LET sum == WeightedSum(frame.features)
        IN  /\ sum >= Pct(85) =>
                   frame.pair_similarity = Min2(One, sum + Pct(8))
            /\ sum < Pct(85) => frame.pair_similarity = sum
            /\ frame.pair_similarity <= One
C11_Witness ==
    /\ frame.stage = "pair"
    /\ WeightedSum(frame.features) = Pct(85)
    /\ frame.features.pixel # frame.features.hash
    /\ frame.pair_similarity = Pct(93)

\* A call that returned from the end of compare_pills_vlm (lines 403-409).
NonDegraded ==
    /\ frame.stage = "returned"
    /\ frame.asked
    /\ frame.result.reason \notin FallbackReasons
ParsedReply == _parse_response_payload(frame.response.payload).parsed

\* The final score the model reported, under either of its two keys.
ReportedFinal(parsed) ==
    IF parsed.final_score.kind \in {"num", "nan"} THEN parsed.final_score
    ELSE IF parsed.final_similarity_score.kind \in {"num", "nan"}
    THEN parsed.final_similarity_score
    ELSE Missing
StatedVlmFinal(parsed, image_similarity, text_similarity) ==
    IF ReportedFinal(parsed) # Missing
    THEN _clamp_score(ReportedFinal(parsed), 0)
    ELSE IF text_similarity # None
    THEN (image_similarity + text_similarity) \div 2
    ELSE image_similarity
StatedComposition(expected, detected) ==
    IF expected = {} THEN 0
    ELSE (Cardinality(expected \cap detected) * One) \div Cardinality(expected)
StatedFinalScore(parsed, visual_similarity, medicine_id, text_similarity) ==
    LET vlm_final == StatedVlmFinal(
                         parsed,
                         ParsedImageSimilarity(parsed, visual_similarity),
                         text_similarity)
        composition_similarity == StatedComposition(
                                      ExpectedTerms(parsed, medicine_id),
                                      DetectedTokens(parsed))
    IN  Max2(0, Min2(One, Max2(vlm_final, visual_similarity)
                              + (COMPOSITION_WEIGHT * composition_similarity)
                                    \div One))

\* A final-score key is present and neither key holds a number: the claim
\* names no score for such a reply.
FinalUnreadable(parsed) ==
    /\ \/ parsed.final_score.kind # "missing"
       \/ parsed.final_similarity_score.kind # "missing"
    /\ ReportedFinal(parsed) = Missing

\* C12: on the non-degraded path vlm_final is the model's own final score
\* when it reported one, else (image_similarity + text_similarity) / 2 when a
\* text similarity is present, else image_similarity; and final_score is
\* clamp(max(vlm_final, visual_similarity)
\*       + COMPOSITION_WEIGHT * composition_similarity, 0, 1),
\* composition_similarity being |expected /\ detected| / |expected|, and 0
\* for an empty set of expected terms.
C12_FusedScore ==
    NonDegraded /\ ~FinalUnreadable(ParsedReply) =>
        frame.result.final_score =
            StatedFinalScore(ParsedReply, frame.visual_similarity,
                             frame.medicine_id, frame.result.text_similarity)

\* The same statement holds of every reply in which the key "final_score"
\* does not hold null or a text.
FusedScoreOfReadableFirstKey ==
    /\ NonDegraded
    /\ ~FinalUnreadable(ParsedReply)
    /\ ParsedReply.final_score.kind \in {"missing", "num", "nan"}
    => frame.result.final_score =
           StatedFinalScore(ParsedReply, frame.visual_similarity,
                            frame.medicine_id, frame.result.text_similarity)

\* An embedding vector as the claim sorts it: unavailable or empty, or of
\* norm zero.
NoVector(response) ==
    \/ ~response.ok
    \/ _flatten_embedding(response.body) = <<>>
    \/ \A i \in 1..Len(_flatten_embedding(response.body)) :
           _flatten_embedding(response.body)[i] = 0

\* C13: the embedding signal never lowers the visual score: after the merge
\* the visual score is max(visual, embedding) when an embedding similarity is
\* available and unchanged when it is absent, and it is absent when either
\* vector is unavailable, empty or of norm zero; image_similarity and
\* final_score of every returned result are >= the pixel-level visual
\* similarity.
C13_EmbeddingNeverLowers ==
    /\ frame.stage \in {"merged", "returned"} =>
           /\ frame.embedding_similarity # None =>
                  frame.visual_similarity =
                      Max2(frame.visual.score, frame.embedding_similarity)
           /\ frame.embedding_similarity = None =>
                  frame.visual_similarity = frame.visual.score
           /\ NoVector(frame.embeddings[1]) \/ NoVector(frame.embeddings[2]) =>
                  frame.embedding_similarity = None
    /\ frame.stage = "returned" =>
           /\ frame.result.image_similarity >= frame.visual.score
           /\ frame.result.final_score >= frame.visual.score
C13_Witness ==
    /\ frame.stage = "returned"
    /\ frame.asked
    /\ frame.embedding_similarity # None
    /\ frame.embedding_similarity < frame.visual.score
    /\ frame.visual_similarity = frame.visual.score
    /\ frame.result.reason \notin FallbackReasons
    /\ frame.result.final_score >= frame.visual.score

\* The response of lines 210-218 with no attempt left.
ZeroExhausted(response) ==
    /\ response.status = 200
    /\ response.similarity_score = 0
    /\ response.text_similarity_score = None
    /\ response.final_similarity_score = 0
    /\ ~response.match /\ ~response.approved
    /\ response.attempts_used = MAX_ATTEMPTS
    /\ response.attempts_remaining = 0

\* C14: requests for one (patient, medicine, day) handled one after
\* another, every count and record succeeding and a reference available:
\* the k-th response has attempts_used = k for k = 1..MAX_ATTEMPTS, after a
\* pipeline run and one recorded attempt; every later request gets the
\* exhausted zero/false response, without a pipeline run and without a
\* recorded attempt.  ("started" is the number of the request being served.)
C14_SequentialAttempts ==
    Answered(1) =>
        IF started <= MAX_ATTEMPTS
        THEN /\ resp[1].status = 200
             /\ resp[1].attempts_used = started
             /\ resp[1].attempts_remaining = MAX_ATTEMPTS - started
             /\ calls[1] >= 1
             /\ rec[1].calls = 1
             /\ ledger[MedShort] = started
        ELSE /\ ZeroExhausted(resp[1])
             /\ calls[1] = 0
             /\ rec[1].calls = 0
             /\ ledger[MedShort] = MAX_ATTEMPTS
C14_Witness ==
    /\ Answered(1)
    /\ started = MAX_ATTEMPTS + ExtraRequests
    /\ ZeroExhausted(resp[1])
    /\ calls[1] = 0
    /\ ledger[MedShort] = MAX_ATTEMPTS

\* The values of lines 230-235 in a row or a response.
ZeroValues(v) ==
    /\ v.similarity_score = 0
    /\ v.final_similarity_score = 0
    /\ v.text_similarity_score = None
    /\ ~v.match /\ ~v.approved

\* C15: every request that passes the attempt gate with a non-empty list of
\* references calls the ledger record exactly once and answers attempts_used
\* = counted + 1, also when the comparison raises; then the recorded and the
\* returned values are 0.0, 0.0, no text similarity, match = approved =
\* false, and the recorded reference URL is the first of the list.
C15_RecordedOnceAlsoOnFailure ==
    \A r \in Reqs :
        Scored(r) =>
            /\ rec[r].calls = 1
            /\ resp[r].status = 200
            /\ resp[r].attempts_used = attempts[r].counted + 1
            /\ exc[r] # "none" =>
                   /\ ZeroValues(resp[r])
                   /\ ZeroValues(rec[r].row)
                   /\ rec[r].row.reference_image_url = reference_urls[r][1]
C15_Witness ==
    \E r \in Reqs :
        /\ Scored(r)
        /\ exc[r] # "none"
        /\ calls[r] = 2
        /\ best[r].has /\ best[r].score > 0
        /\ rec[r].calls = 1
        /\ ZeroValues(rec[r].row)
        /\ resp[r].attempts_used = MAX_ATTEMPTS

\* C16: with several requests for one (patient, medicine, day) handled
\* concurrently, the count and the record of each being separate steps that
\* interleave with the steps of the others, the pipeline runs and the
\* recorded attempts for that key and day never exceed MAX_ATTEMPTS (every
\* row of the ledger is written after a pipeline run).
C16_ConcurrentBound == ledger[MedShort] <= MAX_ATTEMPTS

====
